---- MODULE Spec2Model ----
(***************************************************************************)
(* Model of api_doc_processor/cli.py: the interactive URL collection       *)
(* (collect_urls) and the run controller (main) that sequences client      *)
(* initialisation, connection tests, the batch crawl, the token estimate,  *)
(* the tech-spec generation and the save of the generated specification.   *)
(*                                                                         *)
(* A string is a sequence of tokens (" ", a scheme, a host, junk), so that *)
(* strip, validation and de-duplication act on its content.                *)
(***************************************************************************)
EXTENDS Integers, Sequences, FiniteSets, TLC

VARIABLES
    pc,                 \* position of main / collect_urls
    exit_code,          \* process completion status, -1 while running
    message,            \* <<tag, detail>> of the last status line printed
    debug,              \* verbose-only diagnostic output was printed
    create_config,      \* --create-config
    test_only,          \* --test-only
    verbose,            \* --verbose
    prompts,            \* number of click.prompt calls made by collect_urls
    urls,               \* collect_urls' list, then main's urls
    dirs,               \* directories created under output_dir
    clients,            \* client objects constructed so far
    calls,              \* collaborator operations invoked, in order
    batch,              \* outcomes accumulated inside scrape_urls_batch
    crawl_results,      \* the mapping returned by scrape_urls_batch
    successful_crawls,
    failed_crawls,
    markdown_files,
    token_estimate,
    genArgs,            \* document lists passed to generate_tech_spec
    spec_success,
    tech_spec,
    spec_error,
    spec_filepath,
    markdownDir,        \* files present in output_dir/markdown
    specsDir,           \* files present in output_dir/specs
    firecrawl_ok,
    llm_ok,
    exc,                \* operation whose exception an except clause caught
    typed,              \* non-empty lines answered at the prompt, as typed
    rejected            \* <<url, error>> of each entry reported as invalid

vars == <<pc, exit_code, message, debug, create_config, test_only, verbose,
          prompts, urls, dirs, clients, calls, batch, crawl_results,
          successful_crawls, failed_crawls, markdown_files, token_estimate,
          genArgs, spec_success, tech_spec, spec_error, spec_filepath,
          markdownDir, specsDir, firecrawl_ok, llm_ok, exc, typed, rejected>>

\* ------------------------------------------------------------------------
\* Bounds

\* the operator answers at most this many prompts with a non-empty line
MaxPrompts == 3

\* ------------------------------------------------------------------------
\* Strings typed at the prompt

RawInputs ==
    { <<>>,
      <<" ">>,
      <<"https://", "a.test">>,
      <<" ", "https://", "a.test", " ">>,
      <<"https://", "b.test">>,
      <<"http://", "a.test">>,
      <<"https://">>,
      <<"not a url">> }

AllowedSchemes == {"http://", "https://"}

Hosts == {"a.test", "b.test"}

RECURSIVE lstrip(_)
lstrip(s) == IF s # <<>> /\ Head(s) = " " THEN lstrip(Tail(s)) ELSE s

RECURSIVE rstrip(_)
rstrip(s) ==
    IF s # <<>> /\ s[Len(s)] = " " THEN rstrip(SubSeq(s, 1, Len(s) - 1)) ELSE s

\* str.strip()
strip(s) == rstrip(lstrip(s))

\* utils.validate_url: <<is_valid, error>>
validate_url(url) ==
    IF strip(url) = <<>> THEN <<FALSE, "URL cannot be empty">>
    ELSE IF url[1] \notin AllowedSchemes THEN <<FALSE, "missing scheme/host">>
    ELSE IF Len(url) < 2 \/ url[2] \notin Hosts THEN <<FALSE, "missing scheme/host">>
    ELSE <<TRUE, "">>

Contains(s, x) == \E i \in 1..Len(s) : s[i] = x

\* utils.deduplicate_urls: first occurrences, order kept
RECURSIVE dedupFrom(_, _)
dedupFrom(s, seen) ==
    IF s = <<>> THEN seen
    ELSE dedupFrom(Tail(s), IF Contains(seen, Head(s)) THEN seen ELSE Append(seen, Head(s)))

deduplicate_urls(s) == dedupFrom(s, <<>>)

\* utils.validate_urls_batch: <<valid_urls, invalid_urls>>
RECURSIVE validate_urls_batch(_)
validate_urls_batch(s) ==
    IF s = <<>> THEN << <<>>, <<>> >>
    ELSE LET rest == validate_urls_batch(Tail(s))
             v    == validate_url(Head(s))
         IN  IF v[1] THEN << <<Head(s)>> \o rest[1], rest[2] >>
             ELSE << rest[1], << <<Head(s), v[2]>> >> \o rest[2] >>

\* ------------------------------------------------------------------------
\* Collaborator results

\* file the fetch stage writes for a URL, inside markdown_dir
FilePath(url) == <<"markdown">> \o url \o <<".md">>

FetchErrors == {"scrape failed"}

SuccessOutcome(url) ==
    [url |-> url, success |-> TRUE, filepath |-> FilePath(url), error |-> ""]

FailureOutcome(url, err) ==
    [url |-> url, success |-> FALSE, filepath |-> <<>>, error |-> err]

SpecTexts == {"spec text"}

SpecErrors == {"empty response", "llm error"}

SpecFile == <<"specs", "tech_spec.md">>

Count(s, x) == Cardinality({i \in 1..Len(s) : s[i] = x})

BatchCalls == Count(calls, "scrape_urls_batch")

GenerateCalls == Count(calls, "generate_tech_spec")

SaveCalls == Count(calls, "save_tech_spec")

\* ------------------------------------------------------------------------
\* Initial state: the process has parsed its options

Init ==
    /\ pc = "start"
    /\ exit_code = -1
    /\ message = <<"", "">>
    /\ debug = FALSE
    /\ create_config \in BOOLEAN
    /\ test_only \in BOOLEAN
    /\ verbose \in BOOLEAN
    /\ prompts = 0
    /\ urls = <<>>
    /\ dirs = {}
    /\ clients = {}
    /\ calls = <<>>
    /\ batch = <<>>
    /\ crawl_results = <<>>
    /\ successful_crawls = <<>>
    /\ failed_crawls = <<>>
    /\ markdown_files = <<>>
    /\ token_estimate = "unbound"
    /\ genArgs = <<>>
    /\ spec_success = "unbound"
    /\ tech_spec = ""
    /\ spec_error = ""
    /\ spec_filepath = <<>>
    /\ markdownDir = {}
    /\ specsDir = {}
    /\ firecrawl_ok = "unbound"
    /\ llm_ok = "unbound"
    /\ exc = ""
    /\ typed = <<>>
    /\ rejected = <<>>

\* sys.exit(code) / return from main, after printing msg
Exit(code, msg) ==
    /\ pc' = "exit"
    /\ exit_code' = code
    /\ message' = msg

\* ------------------------------------------------------------------------
\* main, lines 98-115

CreateConfig ==
    /\ pc = "start"
    /\ create_config
    /\ calls' = Append(calls, "create_sample_config")
    /\ Exit(0, <<"Sample configuration created", "">>)
    /\ UNCHANGED <<debug, create_config, test_only, verbose, prompts, urls, dirs,
                   clients, batch, crawl_results, successful_crawls, failed_crawls,
                   markdown_files, token_estimate, genArgs, spec_success, tech_spec,
                   spec_error, spec_filepath, markdownDir, specsDir,
                   firecrawl_ok, llm_ok, exc,
                   typed, rejected>>

LoadConfigOk ==
    /\ pc = "start"
    /\ ~create_config
    /\ pc' = "prompt"
    /\ message' = <<"Configuration loaded successfully", "">>
    /\ UNCHANGED <<exit_code, debug, create_config, test_only, verbose, prompts, urls,
                   dirs, clients, calls, batch, crawl_results, successful_crawls,
                   failed_crawls, markdown_files, token_estimate, genArgs,
                   spec_success, tech_spec, spec_error, spec_filepath, markdownDir,
                   specsDir,
                   firecrawl_ok, llm_ok, exc,
                   typed, rejected>>

LoadConfigFail ==
    /\ pc = "start"
    /\ ~create_config
    /\ exc' = "load_config"
    /\ \E e \in {"Error", "Configuration Error"} : Exit(1, <<e, "">>)
    /\ UNCHANGED <<debug, create_config, test_only, verbose, prompts, urls, dirs,
                   clients, calls, batch, crawl_results, successful_crawls,
                   failed_crawls, markdown_files, token_estimate, genArgs,
                   spec_success, tech_spec, spec_error, spec_filepath, markdownDir,
                   specsDir,
                   firecrawl_ok, llm_ok,
                   typed, rejected>>

\* ------------------------------------------------------------------------
\* collect_urls, lines 39-64

\* lines 53-64: de-duplicate, validate again: <<valid_urls, invalid_urls>>
collect_finish(collected) == validate_urls_batch(deduplicate_urls(collected))

\* the loop reporting a URL it already holds as invalid
PromptUrl_ReportDuplicate ==
    /\ pc = "prompt"
    /\ prompts < MaxPrompts
    /\ \E raw \in RawInputs :
         LET url == strip(raw) IN
         /\ url # <<>>
         /\ typed' = Append(typed, raw)
         /\ IF validate_url(url)[1] /\ ~Contains(urls, url)
            THEN /\ urls' = Append(urls, url)
                 /\ rejected' = rejected
                 /\ message' = <<"Added", "">>
            ELSE /\ urls' = urls
                 /\ rejected' = Append(rejected, <<url, "duplicate or invalid URL">>)
                 /\ message' = <<"Invalid URL", validate_url(url)[2]>>
    /\ prompts' = prompts + 1
    /\ UNCHANGED <<pc, exit_code, debug, create_config, test_only, verbose, dirs,
                   clients, calls, batch, crawl_results, successful_crawls,
                   failed_crawls, markdown_files, token_estimate, genArgs,
                   spec_success, tech_spec, spec_error, spec_filepath, markdownDir,
                   specsDir, firecrawl_ok, llm_ok, exc>>

\* line 50 inserting at the front of the list
PromptUrl_Prepend ==
    /\ pc = "prompt"
    /\ prompts < MaxPrompts
    /\ \E raw \in RawInputs :
         LET url == strip(raw) IN
         /\ url # <<>>
         /\ typed' = Append(typed, raw)
         /\ IF validate_url(url)[1]
            THEN /\ urls' = <<url>> \o urls
                 /\ rejected' = rejected
                 /\ message' = <<"Added", "">>
            ELSE /\ urls' = urls
                 /\ rejected' = Append(rejected, <<url, validate_url(url)[2]>>)
                 /\ message' = <<"Invalid URL", validate_url(url)[2]>>
    /\ prompts' = prompts + 1
    /\ UNCHANGED <<pc, exit_code, debug, create_config, test_only, verbose, dirs,
                   clients, calls, batch, crawl_results, successful_crawls,
                   failed_crawls, markdown_files, token_estimate, genArgs,
                   spec_success, tech_spec, spec_error, spec_filepath, markdownDir,
                   specsDir, firecrawl_ok, llm_ok, exc>>

\* one iteration of the prompt loop with a non-empty answer
PromptUrl ==
    /\ pc = "prompt"
    /\ prompts < MaxPrompts
    /\ \E raw \in RawInputs :
         LET url == strip(raw) IN
         /\ url # <<>>
         /\ typed' = Append(typed, raw)
         /\ IF validate_url(url)[1]
            THEN /\ urls' = Append(urls, url)
                 /\ rejected' = rejected
                 /\ message' = <<"Added", "">>
            ELSE /\ urls' = urls
                 /\ rejected' = Append(rejected, <<url, validate_url(url)[2]>>)
                 /\ message' = <<"Invalid URL", validate_url(url)[2]>>
    /\ prompts' = prompts + 1
    /\ UNCHANGED <<pc, exit_code, debug, create_config, test_only, verbose, dirs,
                   clients, calls, batch, crawl_results, successful_crawls,
                   failed_crawls, markdown_files, token_estimate, genArgs,
                   spec_success, tech_spec, spec_error, spec_filepath, markdownDir,
                   specsDir, firecrawl_ok, llm_ok, exc>>

\* collect_urls without line 54
PromptEmpty_NoDedup ==
    /\ pc = "prompt"
    /\ \E raw \in RawInputs : strip(raw) = <<>>
    /\ urls' = validate_urls_batch(urls)[1]
    /\ rejected' = rejected \o validate_urls_batch(urls)[2]
    /\ prompts' = prompts + 1
    /\ pc' = "check_urls"
    /\ UNCHANGED <<exit_code, message, debug, create_config, test_only, verbose, dirs,
                   clients, calls, batch, crawl_results, successful_crawls,
                   failed_crawls, markdown_files, token_estimate, genArgs,
                   spec_success, tech_spec, spec_error, spec_filepath, markdownDir,
                   specsDir, firecrawl_ok, llm_ok, exc, typed>>

\* the empty answer: leave the loop, de-duplicate, validate, return
PromptEmpty ==
    /\ pc = "prompt"
    /\ \E raw \in RawInputs : strip(raw) = <<>>
    /\ urls' = collect_finish(urls)[1]
    /\ rejected' = rejected \o collect_finish(urls)[2]
    /\ prompts' = prompts + 1
    /\ pc' = "check_urls"
    /\ UNCHANGED <<exit_code, message, debug, create_config, test_only, verbose, dirs,
                   clients, calls, batch, crawl_results, successful_crawls,
                   failed_crawls, markdown_files, token_estimate, genArgs,
                   spec_success, tech_spec, spec_error, spec_filepath, markdownDir,
                   specsDir, firecrawl_ok, llm_ok, exc, typed>>

\* ------------------------------------------------------------------------
\* main, lines 118-133

\* line 122 as sys.exit(1)
NoUrls_Error ==
    /\ pc = "check_urls"
    /\ urls = <<>>
    /\ Exit(1, <<"No URLs provided. Exiting.", "">>)
    /\ UNCHANGED <<debug, create_config, test_only, verbose, prompts, urls, dirs,
                   clients, calls, batch, crawl_results, successful_crawls,
                   failed_crawls, markdown_files, token_estimate, genArgs,
                   spec_success, tech_spec, spec_error, spec_filepath, markdownDir,
                   specsDir, firecrawl_ok, llm_ok, exc,
                   typed, rejected>>

NoUrls ==
    /\ pc = "check_urls"
    /\ urls = <<>>
    /\ Exit(0, <<"No URLs provided. Exiting.", "">>)
    /\ UNCHANGED <<debug, create_config, test_only, verbose, prompts, urls, dirs,
                   clients, calls, batch, crawl_results, successful_crawls,
                   failed_crawls, markdown_files, token_estimate, genArgs,
                   spec_success, tech_spec, spec_error, spec_filepath, markdownDir,
                   specsDir,
                   firecrawl_ok, llm_ok, exc,
                   typed, rejected>>

MakeDirs ==
    /\ pc = "check_urls"
    /\ urls # <<>>
    /\ dirs' = {"output_dir", "markdown", "specs"}
    /\ message' = <<"Output directory", "">>
    /\ pc' = "init_clients"
    /\ UNCHANGED <<exit_code, debug, create_config, test_only, verbose, prompts, urls,
                   clients, calls, batch, crawl_results, successful_crawls,
                   failed_crawls, markdown_files, token_estimate, genArgs,
                   spec_success, tech_spec, spec_error, spec_filepath, markdownDir,
                   specsDir,
                   firecrawl_ok, llm_ok, exc,
                   typed, rejected>>

\* ------------------------------------------------------------------------
\* main, lines 137-176

InitClientsOk ==
    /\ pc = "init_clients"
    /\ calls' = calls \o <<"FirecrawlClient", "LLMClient">>
    /\ clients' = {"firecrawl_client", "llm_client"}
    /\ pc' = "test_firecrawl"
    /\ UNCHANGED <<exit_code, message, debug, create_config, test_only, verbose,
                   prompts, urls, dirs, batch, crawl_results, successful_crawls,
                   failed_crawls, markdown_files, token_estimate, genArgs,
                   spec_success, tech_spec, spec_error, spec_filepath, markdownDir,
                   specsDir,
                   firecrawl_ok, llm_ok, exc,
                   typed, rejected>>

\* one of the two constructors raises
InitClientsRaise ==
    /\ pc = "init_clients"
    /\ \/ /\ calls' = Append(calls, "FirecrawlClient")
          /\ clients' = clients
          /\ exc' = "FirecrawlClient"
       \/ /\ calls' = calls \o <<"FirecrawlClient", "LLMClient">>
          /\ clients' = {"firecrawl_client"}
          /\ exc' = "LLMClient"
    /\ Exit(1, <<"Client initialization error", "">>)
    /\ UNCHANGED <<debug, create_config, test_only, verbose, prompts, urls, dirs,
                   batch, crawl_results, successful_crawls, failed_crawls,
                   markdown_files, token_estimate, genArgs, spec_success, tech_spec,
                   spec_error, spec_filepath, markdownDir, specsDir,
                   firecrawl_ok, llm_ok,
                   typed, rejected>>

TestFirecrawlOk ==
    /\ pc = "test_firecrawl"
    /\ calls' = Append(calls, "firecrawl_client.test_connection")
    /\ firecrawl_ok' = "True"
    /\ message' = <<"firecrawl_msg", "ok">>
    /\ pc' = "test_llm"
    /\ UNCHANGED <<exit_code, debug, create_config, test_only, verbose, prompts, urls,
                   dirs, clients, batch, crawl_results, successful_crawls,
                   failed_crawls, markdown_files, token_estimate, genArgs,
                   spec_success, tech_spec, spec_error, spec_filepath, markdownDir,
                   specsDir,
                   llm_ok, exc,
                   typed, rejected>>

\* test_connection returns (False, msg) or raises
TestFirecrawlFail ==
    /\ pc = "test_firecrawl"
    /\ calls' = Append(calls, "firecrawl_client.test_connection")
    /\ \/ /\ Exit(1, <<"firecrawl_msg", "not ok">>)
          /\ debug' = verbose
          /\ firecrawl_ok' = "False"
          /\ exc' = exc
       \/ /\ Exit(1, <<"Firecrawl connection failed", "">>)
          /\ debug' = debug
          /\ firecrawl_ok' = firecrawl_ok
          /\ exc' = "firecrawl_client.test_connection"
    /\ UNCHANGED <<create_config, test_only, verbose, prompts, urls, dirs, clients,
                   batch, crawl_results, successful_crawls, failed_crawls,
                   markdown_files, token_estimate, genArgs, spec_success, tech_spec,
                   spec_error, spec_filepath, markdownDir, specsDir,
                   llm_ok,
                   typed, rejected>>

TestLLMOk ==
    /\ pc = "test_llm"
    /\ calls' = Append(calls, "llm_client.test_connection")
    /\ llm_ok' = "True"
    /\ message' = <<"llm_msg", "ok">>
    /\ pc' = "check_test_only"
    /\ UNCHANGED <<exit_code, debug, create_config, test_only, verbose, prompts, urls,
                   dirs, clients, batch, crawl_results, successful_crawls,
                   failed_crawls, markdown_files, token_estimate, genArgs,
                   spec_success, tech_spec, spec_error, spec_filepath, markdownDir,
                   specsDir,
                   firecrawl_ok, exc,
                   typed, rejected>>

\* lines 165-169 without the sys.exit of a not-ok result
TestLLMFail_Continue ==
    /\ pc = "test_llm"
    /\ calls' = Append(calls, "llm_client.test_connection")
    /\ \/ /\ pc' = "check_test_only"
          /\ exit_code' = exit_code
          /\ message' = <<"llm_msg", "not ok">>
          /\ debug' = verbose
          /\ llm_ok' = "False"
          /\ exc' = exc
       \/ /\ Exit(1, <<"LLM connection failed", "">>)
          /\ debug' = debug
          /\ llm_ok' = llm_ok
          /\ exc' = "llm_client.test_connection"
    /\ UNCHANGED <<create_config, test_only, verbose, prompts, urls, dirs, clients,
                   batch, crawl_results, successful_crawls, failed_crawls,
                   markdown_files, token_estimate, genArgs, spec_success, tech_spec,
                   spec_error, spec_filepath, markdownDir, specsDir, firecrawl_ok,
                   typed, rejected>>

TestLLMFail ==
    /\ pc = "test_llm"
    /\ calls' = Append(calls, "llm_client.test_connection")
    /\ \/ /\ Exit(1, <<"llm_msg", "not ok">>)
          /\ debug' = verbose
          /\ llm_ok' = "False"
          /\ exc' = exc
       \/ /\ Exit(1, <<"LLM connection failed", "">>)
          /\ debug' = debug
          /\ llm_ok' = llm_ok
          /\ exc' = "llm_client.test_connection"
    /\ UNCHANGED <<create_config, test_only, verbose, prompts, urls, dirs, clients,
                   batch, crawl_results, successful_crawls, failed_crawls,
                   markdown_files, token_estimate, genArgs, spec_success, tech_spec,
                   spec_error, spec_filepath, markdownDir, specsDir,
                   firecrawl_ok,
                   typed, rejected>>

TestOnlyExit ==
    /\ pc = "check_test_only"
    /\ test_only
    /\ Exit(0, <<"All API connections successful!", "">>)
    /\ UNCHANGED <<debug, create_config, test_only, verbose, prompts, urls, dirs,
                   clients, calls, batch, crawl_results, successful_crawls,
                   failed_crawls, markdown_files, token_estimate, genArgs,
                   spec_success, tech_spec, spec_error, spec_filepath, markdownDir,
                   specsDir,
                   firecrawl_ok, llm_ok, exc,
                   typed, rejected>>

\* ------------------------------------------------------------------------
\* main, lines 178-197: firecrawl_client.scrape_urls_batch(urls, markdown_dir)

\* line 174 not testing test_only
StartCrawl_IgnoreTestOnly ==
    /\ pc = "check_test_only"
    /\ calls' = Append(calls, "scrape_urls_batch")
    /\ batch' = <<>>
    /\ message' = <<"Step 1: Crawling documentation...", "">>
    /\ pc' = "scraping"
    /\ UNCHANGED <<exit_code, debug, create_config, test_only, verbose, prompts, urls,
                   dirs, clients, crawl_results, successful_crawls, failed_crawls,
                   markdown_files, token_estimate, genArgs, spec_success, tech_spec,
                   spec_error, spec_filepath, markdownDir, specsDir, firecrawl_ok,
                   llm_ok, exc, typed, rejected>>

StartCrawl ==
    /\ pc = "check_test_only"
    /\ ~test_only
    /\ calls' = Append(calls, "scrape_urls_batch")
    /\ batch' = <<>>
    /\ message' = <<"Step 1: Crawling documentation...", "">>
    /\ pc' = "scraping"
    /\ UNCHANGED <<exit_code, debug, create_config, test_only, verbose, prompts, urls,
                   dirs, clients, crawl_results, successful_crawls, failed_crawls,
                   markdown_files, token_estimate, genArgs, spec_success, tech_spec,
                   spec_error, spec_filepath, markdownDir, specsDir,
                   firecrawl_ok, llm_ok, exc,
                   typed, rejected>>

\* inside the batch: the next URL is scraped; a success writes its document
ScrapeOne ==
    /\ pc = "scraping"
    /\ Len(batch) < Len(urls)
    /\ LET url == urls[Len(batch) + 1] IN
       \/ /\ batch' = Append(batch, SuccessOutcome(url))
          /\ markdownDir' = markdownDir \cup {FilePath(url)}
       \/ /\ \E err \in FetchErrors : batch' = Append(batch, FailureOutcome(url, err))
          /\ markdownDir' = markdownDir
    /\ calls' = Append(calls, "scrape_url")
    /\ UNCHANGED <<pc, exit_code, message, debug, create_config, test_only, verbose,
                   prompts, urls, dirs, clients, crawl_results, successful_crawls,
                   failed_crawls, markdown_files, token_estimate, genArgs,
                   spec_success, tech_spec, spec_error, spec_filepath, specsDir,
                   firecrawl_ok, llm_ok, exc,
                   typed, rejected>>

\* the batch returning after its first outcome
ScrapeReturn_Early ==
    /\ pc = "scraping"
    /\ Len(batch) >= 1
    /\ crawl_results' = batch
    /\ message' = <<"Crawling complete!", "">>
    /\ pc' = "show_results"
    /\ UNCHANGED <<exit_code, debug, create_config, test_only, verbose, prompts, urls,
                   dirs, clients, calls, batch, successful_crawls, failed_crawls,
                   markdown_files, token_estimate, genArgs, spec_success, tech_spec,
                   spec_error, spec_filepath, markdownDir, specsDir, firecrawl_ok,
                   llm_ok, exc, typed, rejected>>

\* the batch returns its mapping and line 189 binds crawl_results
ScrapeReturn ==
    /\ pc = "scraping"
    /\ Len(batch) = Len(urls)
    /\ crawl_results' = batch
    /\ message' = <<"Crawling complete!", "">>
    /\ pc' = "show_results"
    /\ UNCHANGED <<exit_code, debug, create_config, test_only, verbose, prompts, urls,
                   dirs, clients, calls, batch, successful_crawls, failed_crawls,
                   markdown_files, token_estimate, genArgs, spec_success, tech_spec,
                   spec_error, spec_filepath, markdownDir, specsDir,
                   firecrawl_ok, llm_ok, exc,
                   typed, rejected>>

\* lines 192-197 without the sys.exit: the run goes on with no outcome
ScrapeRaise_Swallow ==
    /\ pc = "scraping"
    /\ exc' = "scrape_urls_batch"
    /\ debug' = verbose
    /\ crawl_results' = <<>>
    /\ message' = <<"Error during crawling", "">>
    /\ pc' = "show_results"
    /\ UNCHANGED <<exit_code, create_config, test_only, verbose, prompts, urls, dirs,
                   clients, calls, batch, successful_crawls, failed_crawls,
                   markdown_files, token_estimate, genArgs, spec_success, tech_spec,
                   spec_error, spec_filepath, markdownDir, specsDir, firecrawl_ok,
                   llm_ok,
                   typed, rejected>>

\* the batch raises: lines 192-197
ScrapeRaise ==
    /\ pc = "scraping"
    /\ exc' = "scrape_urls_batch"
    /\ debug' = verbose
    /\ Exit(1, <<"Error during crawling", "">>)
    /\ UNCHANGED <<create_config, test_only, verbose, prompts, urls, dirs, clients,
                   calls, batch, crawl_results, successful_crawls, failed_crawls,
                   markdown_files, token_estimate, genArgs, spec_success, tech_spec,
                   spec_error, spec_filepath, markdownDir, specsDir,
                   firecrawl_ok, llm_ok,
                   typed, rejected>>

\* ------------------------------------------------------------------------
\* main, lines 199-216

\* the loop inserting at the front of both lists
RECURSIVE Partition_Reversed(_)
Partition_Reversed(results) ==
    IF results = <<>> THEN << <<>>, <<>> >>
    ELSE LET rest == Partition_Reversed(Tail(results))
             r    == Head(results)
         IN  IF r.success THEN << rest[1] \o <<r>>, rest[2] >>
             ELSE << rest[1], rest[2] \o <<r>> >>

\* the loop leaving at the first failed outcome
RECURSIVE Partition_StopAtFailure(_)
Partition_StopAtFailure(results) ==
    IF results = <<>> THEN << <<>>, <<>> >>
    ELSE LET rest == Partition_StopAtFailure(Tail(results))
             r    == Head(results)
         IN  IF r.success THEN << <<r>> \o rest[1], rest[2] >>
             ELSE << <<>>, <<r>> >>

\* the loop of lines 203-209: <<successful_crawls, failed_crawls>>
RECURSIVE Partition(_)
Partition(results) ==
    IF results = <<>> THEN << <<>>, <<>> >>
    ELSE LET rest == Partition(Tail(results))
             r    == Head(results)
         IN  IF r.success THEN << <<r>> \o rest[1], rest[2] >>
             ELSE << rest[1], <<r>> \o rest[2] >>

ShowResults ==
    /\ pc = "show_results"
    /\ successful_crawls' = Partition(crawl_results)[1]
    /\ failed_crawls' = Partition(crawl_results)[2]
    /\ pc' = "check_crawls"
    /\ UNCHANGED <<exit_code, message, debug, create_config, test_only, verbose,
                   prompts, urls, dirs, clients, calls, batch, crawl_results,
                   markdown_files, token_estimate, genArgs, spec_success, tech_spec,
                   spec_error, spec_filepath, markdownDir, specsDir,
                   firecrawl_ok, llm_ok, exc,
                   typed, rejected>>

\* line 211 without its sys.exit: the run goes on with no document
NoSuccessfulCrawls_Proceed ==
    /\ pc = "check_crawls"
    /\ successful_crawls = <<>>
    /\ message' = <<"No URLs were successfully crawled", "">>
    /\ pc' = "estimate"
    /\ UNCHANGED <<exit_code, debug, create_config, test_only, verbose, prompts, urls,
                   dirs, clients, calls, batch, crawl_results, successful_crawls,
                   failed_crawls, markdown_files, token_estimate, genArgs,
                   spec_success, tech_spec, spec_error, spec_filepath, markdownDir,
                   specsDir, firecrawl_ok, llm_ok, exc,
                   typed, rejected>>

\* line 213 as a plain return: the process ends with status 0
NoSuccessfulCrawls_Return ==
    /\ pc = "check_crawls"
    /\ successful_crawls = <<>>
    /\ Exit(0, <<"No URLs were successfully crawled", "">>)
    /\ UNCHANGED <<debug, create_config, test_only, verbose, prompts, urls, dirs,
                   clients, calls, batch, crawl_results, successful_crawls,
                   failed_crawls, markdown_files, token_estimate, genArgs,
                   spec_success, tech_spec, spec_error, spec_filepath, markdownDir,
                   specsDir, firecrawl_ok, llm_ok, exc,
                   typed, rejected>>

NoSuccessfulCrawls ==
    /\ pc = "check_crawls"
    /\ successful_crawls = <<>>
    /\ Exit(1, <<"No URLs were successfully crawled", "">>)
    /\ UNCHANGED <<debug, create_config, test_only, verbose, prompts, urls, dirs,
                   clients, calls, batch, crawl_results, successful_crawls,
                   failed_crawls, markdown_files, token_estimate, genArgs,
                   spec_success, tech_spec, spec_error, spec_filepath, markdownDir,
                   specsDir,
                   firecrawl_ok, llm_ok, exc,
                   typed, rejected>>

SomeSuccessfulCrawls ==
    /\ pc = "check_crawls"
    /\ successful_crawls # <<>>
    /\ message' = IF failed_crawls # <<>> THEN <<"Warning: URL(s) failed to crawl", "">>
                  ELSE message
    /\ pc' = "estimate"
    /\ UNCHANGED <<exit_code, debug, create_config, test_only, verbose, prompts, urls,
                   dirs, clients, calls, batch, crawl_results, successful_crawls,
                   failed_crawls, markdown_files, token_estimate, genArgs,
                   spec_success, tech_spec, spec_error, spec_filepath, markdownDir,
                   specsDir,
                   firecrawl_ok, llm_ok, exc,
                   typed, rejected>>

\* ------------------------------------------------------------------------
\* main, lines 218-250

\* line 221
FilesOf(crawls) == [i \in 1..Len(crawls) |-> crawls[i].filepath]

\* an error result of the estimate ends the run
Estimate_Gate ==
    /\ pc = "estimate"
    /\ markdown_files' = FilesOf(successful_crawls)
    /\ calls' = Append(calls, "estimate_token_usage")
    /\ token_estimate' \in {"estimate", "error"}
    /\ IF token_estimate' = "estimate"
       THEN /\ message' = <<"Estimated tokens", "">>
            /\ pc' = "generate"
            /\ exit_code' = exit_code
       ELSE Exit(1, <<"Token estimation failed", "">>)
    /\ UNCHANGED <<debug, create_config, test_only, verbose, prompts, urls, dirs,
                   clients, batch, crawl_results, successful_crawls, failed_crawls,
                   genArgs, spec_success, tech_spec, spec_error, spec_filepath,
                   markdownDir, specsDir, firecrawl_ok, llm_ok, exc, typed, rejected>>

Estimate ==
    /\ pc = "estimate"
    /\ markdown_files' = FilesOf(successful_crawls)
    /\ calls' = Append(calls, "estimate_token_usage")
    /\ token_estimate' \in {"estimate", "error"}
    /\ message' = IF token_estimate' = "estimate" THEN <<"Estimated tokens", "">>
                  ELSE <<"Step 2: Generating technical specification...", "">>
    /\ pc' = "generate"
    /\ UNCHANGED <<exit_code, debug, create_config, test_only, verbose, prompts, urls,
                   dirs, clients, batch, crawl_results, successful_crawls,
                   failed_crawls, genArgs, spec_success, tech_spec, spec_error,
                   spec_filepath, markdownDir, specsDir,
                   firecrawl_ok, llm_ok, exc,
                   typed, rejected>>

\* one generate_tech_spec call per document instead of one for all
GenerateOk_PerDocument ==
    /\ pc = "generate"
    /\ calls' = calls \o [i \in 1..Len(markdown_files) |-> "generate_tech_spec"]
    /\ genArgs' = genArgs \o [i \in 1..Len(markdown_files) |-> <<markdown_files[i]>>]
    /\ spec_success' = "True"
    /\ tech_spec' \in SpecTexts
    /\ pc' = "save"
    /\ UNCHANGED <<exit_code, message, debug, create_config, test_only, verbose,
                   prompts, urls, dirs, clients, batch, crawl_results,
                   successful_crawls, failed_crawls, markdown_files, token_estimate,
                   spec_error, spec_filepath, markdownDir, specsDir, firecrawl_ok,
                   llm_ok, exc,
                   typed, rejected>>

\* generate_tech_spec returns (True, text, None)
GenerateOk ==
    /\ pc = "generate"
    /\ calls' = Append(calls, "generate_tech_spec")
    /\ genArgs' = Append(genArgs, markdown_files)
    /\ spec_success' = "True"
    /\ tech_spec' \in SpecTexts
    /\ pc' = "save"
    /\ UNCHANGED <<exit_code, message, debug, create_config, test_only, verbose,
                   prompts, urls, dirs, clients, batch, crawl_results,
                   successful_crawls, failed_crawls, markdown_files, token_estimate,
                   spec_error, spec_filepath, markdownDir, specsDir,
                   firecrawl_ok, llm_ok, exc,
                   typed, rejected>>

\* line 240 not testing spec_success: the failed result is saved
GenerateFail_Saves ==
    /\ pc = "generate"
    /\ calls' = Append(calls, "generate_tech_spec")
    /\ genArgs' = Append(genArgs, markdown_files)
    /\ spec_success' = "False"
    /\ spec_error' \in SpecErrors
    /\ pc' = "save"
    /\ UNCHANGED <<exit_code, message, debug, create_config, test_only, verbose,
                   prompts, urls, dirs, clients, batch, crawl_results,
                   successful_crawls, failed_crawls, markdown_files, token_estimate,
                   tech_spec, spec_filepath, markdownDir, specsDir, firecrawl_ok,
                   llm_ok, exc, typed, rejected>>

\* generate_tech_spec returns (False, "", error)
GenerateFail ==
    /\ pc = "generate"
    /\ calls' = Append(calls, "generate_tech_spec")
    /\ genArgs' = Append(genArgs, markdown_files)
    /\ spec_success' = "False"
    /\ spec_error' \in SpecErrors
    /\ pc' = "report"
    /\ UNCHANGED <<exit_code, message, debug, create_config, test_only, verbose,
                   prompts, urls, dirs, clients, batch, crawl_results,
                   successful_crawls, failed_crawls, markdown_files, token_estimate,
                   tech_spec, spec_filepath, markdownDir, specsDir,
                   firecrawl_ok, llm_ok, exc,
                   typed, rejected>>

\* generate_tech_spec raises: lines 245-250
GenerateRaise ==
    /\ pc = "generate"
    /\ exc' = "generate_tech_spec"
    /\ calls' = Append(calls, "generate_tech_spec")
    /\ genArgs' = Append(genArgs, markdown_files)
    /\ debug' = verbose
    /\ Exit(1, <<"Error during tech spec generation", "">>)
    /\ UNCHANGED <<create_config, test_only, verbose, prompts, urls, dirs, clients,
                   batch, crawl_results, successful_crawls, failed_crawls,
                   markdown_files, token_estimate, spec_success, tech_spec, spec_error,
                   spec_filepath, markdownDir, specsDir,
                   firecrawl_ok, llm_ok,
                   typed, rejected>>

\* line 241 passing markdown_dir
SaveOk_IntoMarkdown ==
    /\ pc = "save"
    /\ calls' = Append(calls, "save_tech_spec")
    /\ markdownDir' = markdownDir \cup {<<"markdown", "tech_spec.md">>}
    /\ spec_filepath' = <<"markdown", "tech_spec.md">>
    /\ message' = <<"Tech spec generated!", "">>
    /\ pc' = "report"
    /\ UNCHANGED <<exit_code, debug, create_config, test_only, verbose, prompts, urls,
                   dirs, clients, batch, crawl_results, successful_crawls,
                   failed_crawls, markdown_files, token_estimate, genArgs,
                   spec_success, tech_spec, spec_error, specsDir, firecrawl_ok, llm_ok,
                   exc, typed, rejected>>

\* line 241
SaveOk ==
    /\ pc = "save"
    /\ calls' = Append(calls, "save_tech_spec")
    /\ specsDir' = specsDir \cup {SpecFile}
    /\ spec_filepath' = SpecFile
    /\ message' = <<"Tech spec generated!", "">>
    /\ pc' = "report"
    /\ UNCHANGED <<exit_code, debug, create_config, test_only, verbose, prompts, urls,
                   dirs, clients, batch, crawl_results, successful_crawls,
                   failed_crawls, markdown_files, token_estimate, genArgs,
                   spec_success, tech_spec, spec_error, markdownDir,
                   firecrawl_ok, llm_ok, exc,
                   typed, rejected>>

\* save_tech_spec raises: lines 245-250
SaveRaise ==
    /\ pc = "save"
    /\ exc' = "save_tech_spec"
    /\ calls' = Append(calls, "save_tech_spec")
    /\ debug' = verbose
    /\ Exit(1, <<"Error during tech spec generation", "">>)
    /\ UNCHANGED <<create_config, test_only, verbose, prompts, urls, dirs, clients,
                   batch, crawl_results, successful_crawls, failed_crawls,
                   markdown_files, token_estimate, genArgs, spec_success, tech_spec,
                   spec_error, spec_filepath, markdownDir, specsDir,
                   firecrawl_ok, llm_ok,
                   typed, rejected>>

\* ------------------------------------------------------------------------
\* main, lines 252-267

ReportSuccess ==
    /\ pc = "report"
    /\ spec_success = "True"
    /\ Exit(0, <<"Summary", "">>)
    /\ UNCHANGED <<debug, create_config, test_only, verbose, prompts, urls, dirs,
                   clients, calls, batch, crawl_results, successful_crawls,
                   failed_crawls, markdown_files, token_estimate, genArgs,
                   spec_success, tech_spec, spec_error, spec_filepath, markdownDir,
                   specsDir,
                   firecrawl_ok, llm_ok, exc,
                   typed, rejected>>

\* line 266 without spec_error
ReportFailure_NoDetail ==
    /\ pc = "report"
    /\ spec_success # "True"
    /\ Exit(1, <<"Error generating tech spec", "">>)
    /\ UNCHANGED <<debug, create_config, test_only, verbose, prompts, urls, dirs,
                   clients, calls, batch, crawl_results, successful_crawls,
                   failed_crawls, markdown_files, token_estimate, genArgs,
                   spec_success, tech_spec, spec_error, spec_filepath, markdownDir,
                   specsDir, firecrawl_ok, llm_ok, exc,
                   typed, rejected>>

\* a failed generation sends the run back to the crawl, once
ReportFailure_Retry ==
    /\ pc = "report"
    /\ spec_success # "True"
    /\ GenerateCalls < 2
    /\ message' = <<"Error generating tech spec", spec_error>>
    /\ pc' = "check_test_only"
    /\ UNCHANGED <<exit_code, debug, create_config, test_only, verbose, prompts, urls,
                   dirs, clients, calls, batch, crawl_results, successful_crawls,
                   failed_crawls, markdown_files, token_estimate, genArgs,
                   spec_success, tech_spec, spec_error, spec_filepath, markdownDir,
                   specsDir, firecrawl_ok, llm_ok, exc,
                   typed, rejected>>

ReportFailure ==
    /\ pc = "report"
    /\ spec_success # "True"
    /\ Exit(1, <<"Error generating tech spec", spec_error>>)
    /\ UNCHANGED <<debug, create_config, test_only, verbose, prompts, urls, dirs,
                   clients, calls, batch, crawl_results, successful_crawls,
                   failed_crawls, markdown_files, token_estimate, genArgs,
                   spec_success, tech_spec, spec_error, spec_filepath, markdownDir,
                   specsDir,
                   firecrawl_ok, llm_ok, exc,
                   typed, rejected>>

Next ==
    \/ CreateConfig
    \/ LoadConfigOk
    \/ LoadConfigFail
    \/ PromptUrl
    \/ PromptEmpty
    \/ NoUrls
    \/ MakeDirs
    \/ InitClientsOk
    \/ InitClientsRaise
    \/ TestFirecrawlOk
    \/ TestFirecrawlFail
    \/ TestLLMOk
    \/ TestLLMFail
    \/ TestOnlyExit
    \/ StartCrawl
    \/ ScrapeOne
    \/ ScrapeReturn
    \/ ScrapeRaise
    \/ ShowResults
    \/ NoSuccessfulCrawls
    \/ SomeSuccessfulCrawls
    \/ Estimate
    \/ GenerateOk
    \/ GenerateFail
    \/ GenerateRaise
    \/ SaveOk
    \/ SaveRaise
    \/ ReportSuccess
    \/ ReportFailure

Spec == Init /\ [][Next]_vars

TypeOK ==
    /\ exit_code \in {-1, 0, 1}
    /\ (pc = "exit") = (exit_code # -1)
    /\ prompts \in 0..(MaxPrompts + 1)
    /\ spec_success \in {"unbound", "True", "False"}

\* ------------------------------------------------------------------------
\* Predicates on the run

Failed == pc = "exit" /\ exit_code = 1

\* scrape_urls_batch has returned and line 189 has bound crawl_results
FetchReturned ==
    /\ BatchCalls > 0
    /\ pc # "scraping"
    /\ exc # "scrape_urls_batch"

IsSuccess(r) == r.success

\* the successful outcomes of the batch, in outcome order
SuccessOutcomes == SelectSeq(crawl_results, IsSuccess)

AllFetchesFailed ==
    /\ FetchReturned
    /\ Len(crawl_results) >= 1
    /\ \A i \in 1..Len(crawl_results) : ~crawl_results[i].success

\* the run went past the call of line 236
PastGenerate ==
    \/ pc \in {"save", "report"}
    \/ spec_success # "unbound"
    \/ exc \in {"generate_tech_spec", "save_tech_spec"}

\* ------------------------------------------------------------------------
\* Claims

\* C1 (halt on zero success): once the batch has returned outcomes that are
\* all failures, the run can only be at the display of the results, at the
\* check of line 211 or exited with status 1 and the message that no URL was
\* crawled; generate_tech_spec (and the estimate before it) is never invoked.
C1_HaltOnZeroSuccess ==
    AllFetchesFailed =>
        /\ GenerateCalls = 0
        /\ genArgs = <<>>
        /\ Count(calls, "estimate_token_usage") = 0
        /\ pc \in {"show_results", "check_crawls", "exit"}
        /\ pc = "exit" =>
              /\ exit_code = 1
              /\ message = <<"No URLs were successfully crawled", "">>

C1_Witness ==
    /\ AllFetchesFailed
    /\ Len(crawl_results) >= 2
    /\ Failed

\* C2 (synthesis atomicity): generate_tech_spec is invoked at most once in
\* any run and exactly once in a run that went past line 236; that one call
\* receives the whole list of documents, however many were fetched.
C2_SynthesisOnce ==
    /\ GenerateCalls <= 1
    /\ Len(genArgs) = GenerateCalls
    /\ PastGenerate => GenerateCalls = 1
    /\ \A k \in 1..Len(genArgs) :
          Len(genArgs[k]) = Len(successful_crawls) /\ genArgs[k] = markdown_files

C2_Witness ==
    /\ GenerateCalls = 1
    /\ Len(genArgs[1]) >= 2
    /\ pc = "exit"
    /\ exit_code = 0

\* C3 (synthesis input): the documents passed to generate_tech_spec are the
\* file paths of the successful outcomes of the batch, in outcome order,
\* each once, and nothing of a failed outcome; a run whose batch had a
\* failure and a success does not end before the synthesis call.
C3_SynthesisInput ==
    /\ \A k \in 1..Len(genArgs) :
          /\ Len(genArgs[k]) = Len(SuccessOutcomes)
          /\ \A i \in 1..Len(genArgs[k]) : genArgs[k][i] = FilePath(SuccessOutcomes[i].url)
    /\ (FetchReturned /\ SuccessOutcomes # <<>> /\ pc = "exit") => Len(genArgs) = 1

C3_Witness ==
    /\ Len(genArgs) = 1
    /\ Len(genArgs[1]) = 2
    /\ Len(crawl_results) = 3
    /\ ~crawl_results[1].success

\* C4 (nothing to do): when collect_urls returned no URL, the run is at the
\* check of line 120 or has returned with status 0 and the "No URLs
\* provided" message; no directory, client or collaborator call was made.
C4_NothingToDo ==
    (prompts > 0 /\ pc # "prompt" /\ urls = <<>>) =>
        /\ pc \in {"check_urls", "exit"}
        /\ calls = <<>>
        /\ clients = {}
        /\ dirs = {}
        /\ markdownDir = {} /\ specsDir = {}
        /\ pc = "exit" =>
              /\ exit_code = 0
              /\ message = <<"No URLs provided. Exiting.", "">>

C4_Witness ==
    /\ pc = "exit"
    /\ urls = <<>>
    /\ prompts >= 2
    /\ message = <<"No URLs provided. Exiting.", "">>

\* C5 (synthesis failure): when generate_tech_spec returned failure, the run
\* is at the report or exited with status 1 and the collaborator's error in
\* its message; nothing was saved, and the successful crawls and their
\* documents are those the batch produced.
C5_SynthesisFailure ==
    spec_success = "False" =>
        /\ SuccessOutcomes # <<>>
        /\ spec_error \in SpecErrors
        /\ pc \in {"report", "exit"}
        /\ pc = "exit" =>
              /\ exit_code = 1
              /\ message = <<"Error generating tech spec", spec_error>>
        /\ SaveCalls = 0
        /\ specsDir = {}
        /\ spec_filepath = <<>>
        /\ successful_crawls = SuccessOutcomes
        /\ \A i \in 1..Len(successful_crawls) :
              successful_crawls[i].filepath \in markdownDir

C5_Witness ==
    /\ spec_success = "False"
    /\ Failed
    /\ Len(successful_crawls) = 2
    /\ Len(failed_crawls) = 0

\* the stage of the run controller a position of main belongs to:
\* 0 Idle, 1 Normalizing, 2 Fetching, 3 Synthesizing, 4 terminal
StageOf(p) ==
    CASE p = "start" -> 0
      [] p \in {"prompt", "check_urls"} -> 1
      [] p \in {"init_clients", "test_firecrawl", "test_llm", "check_test_only",
                "scraping", "show_results", "check_crawls"} -> 2
      [] p \in {"estimate", "generate", "save", "report"} -> 3
      [] p = "exit" -> 4

\* C6 (forward only): every step keeps the stage or moves to a later one, so
\* no stage is entered twice and none after a later one; after the exit
\* (Done, Failed, nothing to do) no step changes anything.
C6_ForwardOnly ==
    [][/\ StageOf(pc') >= StageOf(pc)
       /\ pc # "exit"
       /\ Len(calls') >= Len(calls)]_vars

C6_Witness ==
    /\ pc = "exit"
    /\ exit_code = 0
    /\ spec_success = "True"
    /\ prompts = MaxPrompts + 1

\* each outcome is in exactly one of successful_crawls and failed_crawls
InExactlyOne(r) == Contains(successful_crawls, r) # Contains(failed_crawls, r)

\* C7 (outcome cardinality, failure isolation): the batch returns one outcome
\* per URL, in URL order, whatever the failures; from line 211 on
\* successful_crawls and failed_crawls hold every outcome, each in exactly
\* one of the two, the successes in the first and the failures in the second.
C7_OutcomeCardinality ==
    /\ FetchReturned =>
          /\ Len(crawl_results) = Len(urls)
          /\ \A i \in 1..Len(urls) : crawl_results[i].url = urls[i]
    /\ (FetchReturned /\ pc # "show_results") =>
          /\ Len(successful_crawls) + Len(failed_crawls) = Len(crawl_results)
          /\ \A i \in 1..Len(crawl_results) : InExactlyOne(crawl_results[i])
          /\ \A i \in 1..Len(successful_crawls) : successful_crawls[i].success
          /\ \A i \in 1..Len(failed_crawls) : ~failed_crawls[i].success

C7_Witness ==
    /\ FetchReturned
    /\ pc = "check_crawls"
    /\ Len(urls) = 3
    /\ Len(failed_crawls) = 1
    /\ Len(successful_crawls) = 2
    /\ ~crawl_results[2].success

BothClients == {"firecrawl_client", "llm_client"}

\* a constructor raised, or a connection test returned not-ok or raised
InitOrAuthFailure ==
    \/ exc \in {"FirecrawlClient", "LLMClient", "firecrawl_client.test_connection",
                "llm_client.test_connection"}
    \/ firecrawl_ok = "False"
    \/ llm_ok = "False"

\* C8 (initialisation failure halts): after a constructor raised or a
\* connection test failed or raised the run has exited with status 1 and
\* neither the batch fetch nor the synthesis was invoked; a batch fetch is
\* invoked only with both clients constructed and both tests passed.
C8_InitFailureHalts ==
    /\ InitOrAuthFailure =>
          /\ Failed
          /\ BatchCalls = 0
          /\ Count(calls, "scrape_url") = 0
          /\ GenerateCalls = 0
    /\ (BatchCalls > 0 \/ GenerateCalls > 0) =>
          /\ clients = BothClients
          /\ firecrawl_ok = "True"
          /\ llm_ok = "True"
          /\ Count(calls, "firecrawl_client.test_connection") = 1
          /\ Count(calls, "llm_client.test_connection") = 1

C8_Witness ==
    /\ Failed
    /\ llm_ok = "False"
    /\ firecrawl_ok = "True"
    /\ Len(urls) >= 2

\* collect_urls returned no URL
ZeroValidUrls == prompts > 0 /\ pc # "prompt" /\ urls = <<>>

ZeroSuccessfulFetches == FetchReturned /\ SuccessOutcomes = <<>>

SynthesisFailure == spec_success = "False"

FullySuccessful ==
    /\ spec_success = "True"
    /\ SpecFile \in specsDir
    /\ message = <<"Summary", "">>

TestOnlySuccess ==
    /\ test_only
    /\ firecrawl_ok = "True"
    /\ llm_ok = "True"
    /\ BatchCalls = 0

\* C9 as stated, for the runs of the pipeline: every halting error, zero
\* valid URLs included, ends with status 1, and status 0 is reached only by
\* a fully successful run.
C9_AsStated ==
    (pc = "exit" /\ ~create_config) =>
        /\ (ZeroValidUrls \/ ZeroSuccessfulFetches \/ SynthesisFailure
               \/ InitOrAuthFailure) => exit_code = 1
        /\ exit_code = 0 => FullySuccessful

\* C9 (completion status): zero successful fetches, a synthesis failure and
\* an initialisation or authentication failure end the process with status
\* 1; zero valid URLs ends it with status 0; status 0 is reached only by a
\* fully successful run after its summary, by the run with no URLs, by a
\* successful --test-only run and by --create-config.
C9_CompletionStatus ==
    pc = "exit" =>
        /\ (ZeroSuccessfulFetches \/ SynthesisFailure \/ InitOrAuthFailure)
               => exit_code = 1
        /\ ZeroValidUrls => exit_code = 0
        /\ exit_code = 0 =>
               \/ FullySuccessful
               \/ ZeroValidUrls
               \/ TestOnlySuccess
               \/ create_config

C9_Witness ==
    /\ pc = "exit"
    /\ ZeroSuccessfulFetches
    /\ exit_code = 1
    /\ Len(urls) >= 2

\* C10 (unexpected exceptions): when scrape_urls_batch, generate_tech_spec or
\* save_tech_spec raised, the run has exited with status 1, the operation
\* that raised was invoked once, and nothing after it was invoked.
C10_ExceptionHalts ==
    /\ exc = "scrape_urls_batch" =>
          /\ Failed
          /\ BatchCalls = 1
          /\ Count(calls, "estimate_token_usage") = 0
          /\ GenerateCalls = 0
          /\ SaveCalls = 0
          /\ calls[Len(calls)] \in {"scrape_urls_batch", "scrape_url"}
    /\ exc = "generate_tech_spec" =>
          /\ Failed
          /\ GenerateCalls = 1
          /\ SaveCalls = 0
          /\ specsDir = {}
          /\ calls[Len(calls)] = "generate_tech_spec"
    /\ exc = "save_tech_spec" =>
          /\ Failed
          /\ GenerateCalls = 1
          /\ SaveCalls = 1
          /\ calls[Len(calls)] = "save_tech_spec"

C10_Witness ==
    /\ exc = "scrape_urls_batch"
    /\ Failed
    /\ Len(urls) >= 2
    /\ Count(calls, "scrape_url") >= 1

\* C11 (advisory estimate): whatever estimate_token_usage returns, an
\* estimate or an error result, the step of lines 221-226 only records the
\* result and moves to the generation; the step after it is the
\* generate_tech_spec call over the successful documents; and the final
\* status of a run that asked for an estimate is 0 exactly when the
\* generation succeeded and nothing raised, the estimate playing no part.
C11_EstimateAdvisory ==
    [][/\ pc = "estimate" =>
             /\ pc' = "generate"
             /\ exit_code' = exit_code
             /\ exc' = exc
             /\ calls' = Append(calls, "estimate_token_usage")
             /\ markdown_files' = FilesOf(successful_crawls)
             /\ genArgs' = genArgs
       /\ pc = "generate" =>
             /\ token_estimate \in {"estimate", "error"}
             /\ calls' = Append(calls, "generate_tech_spec")
             /\ genArgs' = <<FilesOf(successful_crawls)>>
       /\ (pc' = "exit" /\ token_estimate' # "unbound") =>
             (exit_code' = 0 <=> (spec_success' = "True" /\ exc' = ""))]_vars

C11_Witness ==
    /\ token_estimate = "error"
    /\ pc = "exit"
    /\ exit_code = 0
    /\ spec_success = "True"
    /\ GenerateCalls = 1

\* ------------------------------------------------------------------------
\* Normalisation (collect_urls)

\* collect_urls has returned
Collected == prompts > 0 /\ pc # "prompt"

IsValid(url) == validate_url(url)[1]

IsInvalid(url) == ~validate_url(url)[1]

\* the entries typed, as line 40 strips them
StrippedTyped == [k \in 1..Len(typed) |-> strip(typed[k])]

\* position of the first entry typed that is the URL u
FirstTyped(u) ==
    CHOOSE k \in 1..Len(typed) :
        /\ StrippedTyped[k] = u
        /\ \A j \in 1..(k - 1) : StrippedTyped[j] # u

\* the loop of lines 39-51 over a sequence of answers
RECURSIVE collect_loop(_, _)
collect_loop(raw, acc) ==
    IF raw = <<>> \/ strip(Head(raw)) = <<>> THEN acc
    ELSE IF validate_url(strip(Head(raw)))[1]
         THEN collect_loop(Tail(raw), Append(acc, strip(Head(raw))))
         ELSE collect_loop(Tail(raw), acc)

\* collect_urls over a sequence of answers: <<valid_urls, invalid_urls>>
Normalize(raw) == collect_finish(collect_loop(raw, <<>>))

\* C12 (normalisation partitions): when collect_urls has returned, urls holds
\* each valid URL typed exactly once and nothing else; the entries reported
\* as invalid are the invalid entries typed, in order, each with a reason; a
\* repeated valid URL is not among them; entries typed after an invalid one
\* are processed like the others.
C12_NormalizationPartitions ==
    Collected =>
        /\ \A k \in 1..Len(typed) :
              IsValid(StrippedTyped[k]) => Count(urls, StrippedTyped[k]) = 1
        /\ \A i \in 1..Len(urls) :
              IsValid(urls[i]) /\ Contains(StrippedTyped, urls[i])
        /\ Len(rejected) = Len(SelectSeq(StrippedTyped, IsInvalid))
        /\ \A i \in 1..Len(rejected) :
              /\ rejected[i][1] = SelectSeq(StrippedTyped, IsInvalid)[i]
              /\ rejected[i][2] = validate_url(rejected[i][1])[2]
              /\ rejected[i][2] # ""
              /\ ~Contains(urls, rejected[i][1])

C12_Witness ==
    /\ Collected
    /\ Len(typed) = 3
    /\ IsInvalid(StrippedTyped[1])
    /\ IsValid(StrippedTyped[2])
    /\ StrippedTyped[3] = StrippedTyped[2]
    /\ typed[3] # typed[2]
    /\ urls = <<StrippedTyped[2]>>
    /\ Len(rejected) = 1

\* C13 (idempotence): when collect_urls has returned, normalising the
\* returned list again returns the same list, same order, nothing rejected.
C13_DedupIdempotence ==
    Collected =>
        /\ Normalize(urls)[1] = urls
        /\ Normalize(urls)[2] = <<>>

C13_Witness ==
    /\ Collected
    /\ Len(typed) = 3
    /\ Len(urls) = 2
    /\ StrippedTyped[3] = StrippedTyped[1]
    /\ IsValid(StrippedTyped[1])

\* C14 (order preservation): when collect_urls has returned, urls lists the
\* valid URLs typed, without repetition, in the order of their first
\* occurrence among the entries typed.
C14_OrderPreservation ==
    Collected =>
        /\ \A k \in 1..Len(typed) :
              IsValid(StrippedTyped[k]) => Contains(urls, StrippedTyped[k])
        /\ \A i \in 1..Len(urls) : Contains(StrippedTyped, urls[i])
        /\ \A i, j \in 1..Len(urls) :
              i < j => FirstTyped(urls[i]) < FirstTyped(urls[j])

C14_Witness ==
    /\ Collected
    /\ Len(typed) = 3
    /\ urls = <<StrippedTyped[1], StrippedTyped[3]>>
    /\ IsInvalid(StrippedTyped[2])
    /\ urls[1] = <<"https://", "b.test">>
    /\ urls[2] = <<"http://", "a.test">>

\* ------------------------------------------------------------------------
\* Stages and the output tree

FetchOps == {"scrape_urls_batch", "scrape_url"}

SynthOps == {"estimate_token_usage", "generate_tech_spec", "save_tech_spec"}

\* C15 (no overlap): in the order of the calls every fetch call precedes
\* every synthesis call; while the batch runs the URLs are scraped one at a
\* time in order and no synthesis call has been made; the synthesis is called
\* only when the batch has returned with every URL scraped and every outcome
\* recorded and partitioned.
C15_StagesDoNotOverlap ==
    /\ \A i, j \in 1..Len(calls) :
          (calls[i] \in SynthOps /\ calls[j] \in FetchOps) => j < i
    /\ pc = "scraping" =>
          /\ \A i \in 1..Len(calls) : calls[i] \notin SynthOps
          /\ Len(batch) = Count(calls, "scrape_url")
          /\ Len(batch) <= Len(urls)
          /\ \A i \in 1..Len(batch) : batch[i].url = urls[i]
    /\ (\E i \in 1..Len(calls) : calls[i] \in SynthOps) =>
          /\ FetchReturned
          /\ BatchCalls = 1
          /\ Count(calls, "scrape_url") = Len(urls)
          /\ Len(crawl_results) = Len(urls)
          /\ Len(successful_crawls) + Len(failed_crawls) = Len(urls)

C15_Witness ==
    /\ GenerateCalls = 1
    /\ Len(urls) = 3
    /\ Len(failed_crawls) = 1
    /\ calls[Len(calls)] = "generate_tech_spec"

\* positions of main in the fetch stage and in the synthesis stage
FetchPcs == {"check_test_only", "scraping", "show_results", "check_crawls"}

SynthPcs == {"estimate", "generate", "save", "report"}

\* C16 (write ownership): a step that changes output_dir/markdown is a step
\* of the batch fetch and one that changes output_dir/specs is the save of
\* the synthesis stage; no step of one stage changes the other stage's
\* directory; every file is under its stage's directory, none in both.
C16_WriteOwnership ==
    [][/\ markdownDir' # markdownDir => (pc = "scraping" /\ specsDir' = specsDir)
       /\ specsDir' # specsDir => (pc = "save" /\ markdownDir' = markdownDir)
       /\ pc \in FetchPcs => specsDir' = specsDir
       /\ pc \in SynthPcs => markdownDir' = markdownDir
       /\ \A f \in markdownDir' : f[1] = "markdown"
       /\ \A f \in specsDir' : f[1] = "specs"
       /\ markdownDir' \cap specsDir' = {}
       /\ (markdownDir' # {} \/ specsDir' # {}) => {"markdown", "specs"} \subseteq dirs']_vars

C16_Witness ==
    /\ Cardinality(markdownDir) = 2
    /\ specsDir = {SpecFile}
    /\ pc = "exit"

\* position of the first call of op in the call sequence, 0 if none
FirstCall(op) ==
    IF Count(calls, op) = 0 THEN 0
    ELSE CHOOSE i \in 1..Len(calls) :
            calls[i] = op /\ \A j \in 1..(i - 1) : calls[j] # op

\* C17 (zero or one artifact): output_dir/specs holds at most one file, and
\* one only after generate_tech_spec returned success; save_tech_spec is
\* invoked at most once, after that successful call; the success summary is
\* printed only with the file saved.
C17_ZeroOrOneArtifact ==
    /\ Cardinality(specsDir) <= 1
    /\ specsDir # {} => (spec_success = "True" /\ SaveCalls = 1 /\ spec_filepath \in specsDir)
    /\ SaveCalls <= 1
    /\ SaveCalls = 1 =>
          /\ spec_success = "True"
          /\ GenerateCalls = 1
          /\ FirstCall("generate_tech_spec") < FirstCall("save_tech_spec")
    /\ (pc = "exit" /\ message = <<"Summary", "">>) =>
          /\ exit_code = 0
          /\ SaveCalls = 1
          /\ specsDir = {SpecFile}
          /\ spec_filepath = SpecFile

C17_Witness ==
    /\ pc = "exit"
    /\ message = <<"Summary", "">>
    /\ specsDir = {SpecFile}
    /\ Len(failed_crawls) >= 1

ConnectionTests ==
    Count(calls, "firecrawl_client.test_connection")
        + Count(calls, "llm_client.test_connection")

\* C18 (test only): a --test-only run never invokes the batch fetch, the
\* estimate, the generation or the save; once both connection tests passed
\* it can only return with status 0; a connection is tested only with a
\* non-empty urls, and with no URL the run ends as "No URLs provided".
C18_TestOnly ==
    test_only =>
        /\ \A i \in 1..Len(calls) : calls[i] \notin (FetchOps \cup SynthOps)
        /\ pc \notin ({"scraping", "show_results", "check_crawls"} \cup SynthPcs)
        /\ markdownDir = {} /\ specsDir = {}
        /\ (firecrawl_ok = "True" /\ llm_ok = "True") =>
              /\ pc \in {"check_test_only", "exit"}
              /\ pc = "exit" =>
                    /\ exit_code = 0
                    /\ message = <<"All API connections successful!", "">>
        /\ ConnectionTests > 0 => urls # <<>>
        /\ (Collected /\ urls = <<>> /\ pc = "exit") =>
              /\ message = <<"No URLs provided. Exiting.", "">>
              /\ ConnectionTests = 0

C18_Witness ==
    /\ test_only
    /\ pc = "exit"
    /\ exit_code = 0
    /\ ConnectionTests = 2
    /\ Len(urls) >= 2

\* ------------------------------------------------------------------------
\* Termination

\* the process takes its next step, and the operator ends the prompt loop
\* with an empty line
FairSpec == Spec /\ WF_vars(Next) /\ WF_vars(PromptEmpty)

ConfigCreated == create_config /\ exit_code = 0

ConfigFailure == exc = "load_config" /\ exit_code = 1

NothingToDo == ZeroValidUrls /\ exit_code = 0

TestOnlyDone == TestOnlySuccess /\ exit_code = 0

RunFailed == exit_code = 1 /\ exc # "load_config"

Done == FullySuccessful /\ exit_code = 0

Outcomes ==
    {o \in {"config created", "configuration failure", "nothing to do",
            "test only", "failed", "done"} :
        \/ o = "config created" /\ ConfigCreated
        \/ o = "configuration failure" /\ ConfigFailure
        \/ o = "nothing to do" /\ NothingToDo
        \/ o = "test only" /\ TestOnlyDone
        \/ o = "failed" /\ RunFailed
        \/ o = "done" /\ Done}

Terminated == pc = "exit" /\ Cardinality(Outcomes) = 1

\* C19 (termination): with the operator ending the prompt loop and every
\* call returning or raising, every run reaches the exit with exactly one
\* of the six outcomes and stays there, no step being possible any more.
C19_Termination == <>[](Terminated /\ ~ENABLED Next)

C19_Witness ==
    /\ Terminated
    /\ Outcomes = {"failed"}
    /\ exc = "save_tech_spec"
    /\ prompts = MaxPrompts + 1

====
